---- MODULE Spec2Model ----
(***************************************************************************)
(* Model of inboard/app/main_base.py: the minimal ASGI application `App`.  *)
(*                                                                         *)
(* The host server creates one App instance per connection                *)
(* (App.__init__(scope)) and then awaits instance(receive, send)          *)
(* (App.__call__).  __call__ is a coroutine with two suspension points,   *)
(* the two `await send(...)`; each piece of code between suspension       *)
(* points is one atomic action of the model.  Several invocations may be  *)
(* in flight at once; the environment variable PROCESS_MANAGER may be     *)
(* changed from outside (the tests use monkeypatch.setenv) at any time.   *)
(*                                                                         *)
(* A Python str is modelled as the sequence of its Unicode code points    *)
(* and a bytes object as a sequence of integers in 0..255, so that        *)
(* str.encode("utf-8") is a real conversion.  Environment values and      *)
(* dictionary keys, which the code only compares, are TLA+ strings.       *)
(***************************************************************************)
EXTENDS Integers, Sequences, FiniteSets, TLC

\* Number of connections (App instances) the host server creates in a run.
MaxInvocations == 2

Invocations == 1..MaxInvocations

(***************************************************************************)
(* Inputs                                                                  *)
(***************************************************************************)

\* Request scopes the host server may pass to App.__init__: two http scopes
\* that differ in path, method and query string, and two non-http scopes.
Scopes ==
    { [type |-> "http", method |-> "GET", path |-> "/", query_string |-> ""],
      [type |-> "http", method |-> "POST", path |-> "/health", query_string |-> "a=1"],
      [type |-> "websocket", method |-> "GET", path |-> "/", query_string |-> ""],
      [type |-> "lifespan", method |-> "", path |-> "", query_string |-> ""] }

\* The scope slot of a connection the server has not created yet.
NoScope == [type |-> "<no scope>"]

\* Values of the `receive` argument of App.__call__.
Receives == {"receive_a", "receive_b"}

NoReceive == "<no receive>"

\* Values PROCESS_MANAGER is given from outside: the two recognised tokens,
\* the value of the test suite, a wrong-case token and the empty string.
ProcessManagerValues == {"gunicorn", "uvicorn", "incorrect", "Uvicorn", ""}

\* os.environ restricted to the one key the application reads: a function
\* whose domain holds "PROCESS_MANAGER" exactly when the variable is set.
Environs ==
    {<<>>} \cup { [k \in {"PROCESS_MANAGER"} |-> v] : v \in ProcessManagerValues }

\* sys.version_info of the interpreters the application is run on.
VersionInfos ==
    { [major |-> 3, minor |-> 9, micro |-> 0],
      [major |-> 3, minor |-> 12, micro |-> 7] }

VARIABLES
    environ,           \* os.environ (process-wide)
    sys_version_info,  \* sys.version_info (fixed for the process)
    scope,             \* scope[i]: the scope the server passes to App(scope)
    self_scope,        \* self_scope[i]: the instance attribute self.scope
    receive,           \* receive[i]: the receive argument of __call__
    pc,                \* pc[i]: position of invocation i
    sent,              \* sent[i]: the messages passed to i's send, in order
    process_manager,   \* process_manager[i]: the local variable of __call__
    response,          \* response[i]: the value __call__ returned
    raised             \* raised[i]: the exception that ended invocation i

vars ==
    <<environ, sys_version_info, scope, self_scope, receive, pc, sent,
      process_manager, response, raised>>

\* A local variable not yet bound, a call that has not returned, no exception.
Unbound == "<unbound>"
NoResponse == [type |-> "<no response>"]
NoException == "<no exception>"

(***************************************************************************)
(* Pure parts of App.__call__                                              *)
(***************************************************************************)

\* Mutant: the default is dropped, as os.getenv(key) without its second
\* argument would; an unset variable then reads as no recognised value.
getenv_without_default(key, default) ==
    IF key \in DOMAIN environ THEN environ[key] ELSE ""

\* Mutant: the setting is cached; once some invocation has read it, later
\* reads return the value read first.
getenv_cached(key, default) ==
    IF \E j \in Invocations : process_manager[j] # Unbound
    THEN process_manager[CHOOSE j \in Invocations : process_manager[j] # Unbound]
    ELSE IF key \in DOMAIN environ THEN environ[key] ELSE default

\* os.getenv(key, default)
getenv(key, default) ==
    IF key \in DOMAIN environ THEN environ[key] ELSE default

\* str(n) for n >= 0, as the f-string formats an int: its decimal digits.
RECURSIVE IntToStr(_)
IntToStr(n) ==
    IF n < 10 THEN <<48 + n>> ELSE IntToStr(n \div 10) \o <<48 + (n % 10)>>

\* version = f"{major}.{minor}.{micro}"
Version(info) ==
    IntToStr(info.major) \o <<46>> \o IntToStr(info.minor) \o <<46>>
        \o IntToStr(info.micro)

\* Mutant: the match ignores case.
IsRecognised_ignoring_case(pm) ==
    pm \in {"gunicorn", "uvicorn", "Gunicorn", "Uvicorn"}

\* process_manager not in ["gunicorn", "uvicorn"], negated
IsRecognised(pm) ==
    pm \in {"gunicorn", "uvicorn"}

\* Mutant: the condition tests for the other token.
Server_inverted(pm) ==
    IF pm = "gunicorn"
    THEN <<85, 118, 105, 99, 111, 114, 110>>
    ELSE <<85, 118, 105, 99, 111, 114, 110, 44, 32,
           71, 117, 110, 105, 99, 111, 114, 110, 44>>

\* server = "Uvicorn" if process_manager == "uvicorn" else "Uvicorn, Gunicorn,"
Server(pm) ==
    IF pm = "uvicorn"
    THEN <<85, 118, 105, 99, 111, 114, 110>>
    ELSE <<85, 118, 105, 99, 111, 114, 110, 44, 32,
           71, 117, 110, 105, 99, 111, 114, 110, 44>>

\* message = f"Hello World, from {server} and Python {version}!"
Message(server, version) ==
    <<72, 101, 108, 108, 111, 32, 87, 111, 114, 108, 100, 44, 32,
      102, 114, 111, 109, 32>>
        \o server
        \o <<32, 97, 110, 100, 32, 80, 121, 116, 104, 111, 110, 32>>
        \o version
        \o <<33>>

\* The UTF-8 encoding of one code point.
EncodeCodePoint(cp) ==
    IF cp < 128 THEN <<cp>>
    ELSE IF cp < 2048 THEN <<192 + (cp \div 64), 128 + (cp % 64)>>
    ELSE IF cp < 65536
         THEN <<224 + (cp \div 4096), 128 + ((cp \div 64) % 64), 128 + (cp % 64)>>
    ELSE <<240 + (cp \div 262144), 128 + ((cp \div 4096) % 64),
           128 + ((cp \div 64) % 64), 128 + (cp % 64)>>

\* str.encode("utf-8")
RECURSIVE Encode(_)
Encode(s) ==
    IF s = <<>> THEN <<>> ELSE EncodeCodePoint(Head(s)) \o Encode(Tail(s))

\* Mutant: the start message declares no content type.
StartMessage_without_header ==
    [type |-> "http.response.start", status |-> 200, headers |-> <<>>]

\* The first message __call__ sends.
StartMessage ==
    [type |-> "http.response.start",
     status |-> 200,
     headers |-> << <<"content-type", "text/plain">> >>]

\* response = {"type": "http.response.body", "body": message.encode("utf-8")}
BodyMessage(message) ==
    [type |-> "http.response.body", body |-> Encode(message)]

(***************************************************************************)
(* State machine                                                           *)
(***************************************************************************)

Init ==
    /\ environ \in Environs
    /\ sys_version_info \in VersionInfos
    /\ scope = [i \in Invocations |-> NoScope]
    /\ self_scope = [i \in Invocations |-> NoScope]
    /\ receive = [i \in Invocations |-> NoReceive]
    /\ pc = [i \in Invocations |-> "awaiting_request"]
    /\ sent = [i \in Invocations |-> <<>>]
    /\ process_manager = [i \in Invocations |-> Unbound]
    /\ response = [i \in Invocations |-> NoResponse]
    /\ raised = [i \in Invocations |-> NoException]

\* monkeypatch.setenv("PROCESS_MANAGER", value): the environment changes
\* from outside the application.
Setenv(value) ==
    /\ environ' = [k \in DOMAIN environ \cup {"PROCESS_MANAGER"} |->
                      IF k = "PROCESS_MANAGER" THEN value ELSE environ[k]]
    /\ UNCHANGED <<sys_version_info, scope, self_scope, receive, pc, sent,
                   process_manager, response, raised>>

\* Mutant: the assertion is missing.
ScopeIsHttp_not_asserted(s) ==
    TRUE

\* assert scope["type"] == "http"
ScopeIsHttp(s) ==
    s.type = "http"

\* App.__init__(scope): the server creates the instance for connection i.
Construct(i, s) ==
    /\ pc[i] = "awaiting_request"
    /\ scope' = [scope EXCEPT ![i] = s]
    /\ \/ /\ ScopeIsHttp(s)
          /\ self_scope' = [self_scope EXCEPT ![i] = s]
          /\ pc' = [pc EXCEPT ![i] = "constructed"]
          /\ UNCHANGED raised
       \/ /\ ~ScopeIsHttp(s)
          /\ pc' = [pc EXCEPT ![i] = "assertion_error"]
          /\ raised' = [raised EXCEPT ![i] = "AssertionError"]
          /\ UNCHANGED self_scope
    /\ UNCHANGED <<environ, sys_version_info, receive, sent, process_manager,
                   response>>

\* Mutant: the responder routes by path, answering 404 off the root path.
CallSendStart_routed(i, r) ==
    /\ pc[i] = "constructed"
    /\ receive' = [receive EXCEPT ![i] = r]
    /\ sent' = [sent EXCEPT ![i] =
           Append(@, [type |-> "http.response.start",
                      status |-> IF self_scope[i].path = "/" THEN 200 ELSE 404,
                      headers |-> << <<"content-type", "text/plain">> >>])]
    /\ pc' = [pc EXCEPT ![i] = "await_send_start"]
    /\ UNCHANGED <<environ, sys_version_info, scope, self_scope,
                   process_manager, response, raised>>

\* Mutant: all invocations share one send channel.
CallSendStart_shared_channel(i, r) ==
    /\ pc[i] = "constructed"
    /\ receive' = [receive EXCEPT ![i] = r]
    /\ sent' = [j \in Invocations |-> Append(sent[j], StartMessage)]
    /\ pc' = [pc EXCEPT ![i] = "await_send_start"]
    /\ UNCHANGED <<environ, sys_version_info, scope, self_scope,
                   process_manager, response, raised>>

\* App.__call__(receive, send) up to its first suspension point: the
\* coroutine passes the start message to send and waits for send to return.
CallSendStart(i, r) ==
    /\ pc[i] = "constructed"
    /\ receive' = [receive EXCEPT ![i] = r]
    /\ sent' = [sent EXCEPT ![i] = Append(@, StartMessage)]
    /\ pc' = [pc EXCEPT ![i] = "await_send_start"]
    /\ UNCHANGED <<environ, sys_version_info, scope, self_scope,
                   process_manager, response, raised>>

\* The first send returns; __call__ runs to the raise or to its second
\* suspension point, where it has passed the body message to send.
ResumeSendBody(i) ==
    /\ pc[i] = "await_send_start"
    /\ LET pm == getenv("PROCESS_MANAGER", "gunicorn") IN
       /\ process_manager' = [process_manager EXCEPT ![i] = pm]
       /\ \/ /\ ~IsRecognised(pm)
             /\ raised' = [raised EXCEPT ![i] = "NameError"]
             /\ pc' = [pc EXCEPT ![i] = "configuration_error"]
             /\ UNCHANGED sent
          \/ /\ IsRecognised(pm)
             /\ sent' = [sent EXCEPT ![i] =
                    Append(@, BodyMessage(Message(Server(pm),
                                                  Version(sys_version_info))))]
             /\ pc' = [pc EXCEPT ![i] = "await_send_body"]
             /\ UNCHANGED raised
    /\ UNCHANGED <<environ, sys_version_info, scope, self_scope, receive,
                   response>>

\* Mutant: the coroutine is never resumed from its second send.
ReturnResponse_never(i) ==
    /\ pc[i] = "await_send_body"
    /\ UNCHANGED vars

\* The second send returns; __call__ returns the response it sent.
ReturnResponse(i) ==
    /\ pc[i] = "await_send_body"
    /\ response' = [response EXCEPT ![i] = sent[i][Len(sent[i])]]
    /\ pc' = [pc EXCEPT ![i] = "completed"]
    /\ UNCHANGED <<environ, sys_version_info, scope, self_scope, receive,
                   sent, process_manager, raised>>

Next ==
    \/ \E v \in ProcessManagerValues : Setenv(v)
    \/ \E i \in Invocations, s \in Scopes : Construct(i, s)
    \/ \E i \in Invocations, r \in Receives : CallSendStart(i, r)
    \/ \E i \in Invocations : ResumeSendBody(i)
    \/ \E i \in Invocations : ReturnResponse(i)

Spec == Init /\ [][Next]_vars

\* A coroutine suspended in send is resumed when send returns.
Resume ==
    \E i \in Invocations : ResumeSendBody(i) \/ ReturnResponse(i)

\* The liveness specification draws the inputs that no step's enabling
\* depends on from smaller sets: one interpreter version, one http and one
\* non-http scope, one receive argument.
FairScopes == { s \in Scopes : s.method = "GET" /\ s.query_string = "" }

FairInit ==
    Init /\ sys_version_info.minor = 12

FairNext ==
    \/ \E v \in ProcessManagerValues : Setenv(v)
    \/ \E i \in Invocations, s \in FairScopes : Construct(i, s)
    \/ \E i \in Invocations : CallSendStart(i, "receive_a")
    \/ \E i \in Invocations : ResumeSendBody(i)
    \/ \E i \in Invocations : ReturnResponse(i)

\* Every send call eventually returns: while some coroutine is suspended in
\* send, the host server eventually resumes one.  An invocation is resumed
\* at most twice, so no suspended coroutine is passed over for ever.
FairSpec ==
    FairInit /\ [][FairNext]_vars /\ WF_vars(Resume)

(***************************************************************************)
(* Expected values, written out from the documented wire contract          *)
(***************************************************************************)

\* {"type": "http.response.start", "status": 200,
\*  "headers": [[b"content-type", b"text/plain"]]}
ExpectedStart ==
    [type |-> "http.response.start",
     status |-> 200,
     headers |-> << <<"content-type", "text/plain">> >>]

\* The bytes of "{major}.{minor}.{micro}" for the interpreters of VersionInfos.
ExpectedVersionBytes ==
    CASE sys_version_info = [major |-> 3, minor |-> 9, micro |-> 0]
             -> <<51, 46, 57, 46, 48>>
      [] sys_version_info = [major |-> 3, minor |-> 12, micro |-> 7]
             -> <<51, 46, 49, 50, 46, 55>>

\* b"Hello World, from Uvicorn and Python {major}.{minor}.{micro}!"
ExpectedUvicornBody ==
    <<72, 101, 108, 108, 111, 32, 87, 111, 114, 108, 100, 44, 32,
      102, 114, 111, 109, 32, 85, 118, 105, 99, 111, 114, 110, 32,
      97, 110, 100, 32, 80, 121, 116, 104, 111, 110, 32>>
        \o ExpectedVersionBytes \o <<33>>

\* b"Hello World, from Uvicorn, Gunicorn, and Python {major}.{minor}.{micro}!"
ExpectedGunicornBody ==
    <<72, 101, 108, 108, 111, 32, 87, 111, 114, 108, 100, 44, 32,
      102, 114, 111, 109, 32, 85, 118, 105, 99, 111, 114, 110, 44, 32,
      71, 117, 110, 105, 99, 111, 114, 110, 44, 32,
      97, 110, 100, 32, 80, 121, 116, 104, 111, 110, 32>>
        \o ExpectedVersionBytes \o <<33>>

\* Invocation i takes, in this step, the step that reads PROCESS_MANAGER.
ReadsSetting(i) ==
    pc[i] = "await_send_start" /\ pc'[i] # pc[i]

\* PROCESS_MANAGER is set to v in the current state.
SettingIs(v) ==
    "PROCESS_MANAGER" \in DOMAIN environ /\ environ["PROCESS_MANAGER"] = v

SettingUnset ==
    "PROCESS_MANAGER" \notin DOMAIN environ

\* Invocation i has passed a body message to send.
BodySent(i) ==
    pc[i] \in {"await_send_body", "completed"}

(***************************************************************************)
(* C1: on an http scope with PROCESS_MANAGER "gunicorn", "uvicorn" or      *)
(* unset, the messages passed to send are exactly two, in order: the      *)
(* start record (status 200, the single header content-type: text/plain)  *)
(* and then a body record; no body record precedes the start record and   *)
(* nothing follows the body record.                                        *)
(***************************************************************************)
C1_TwoMessagesInOrder ==
    \A i \in Invocations :
        /\ Len(sent[i]) <= 2
        /\ Len(sent[i]) >= 1 => sent[i][1] = ExpectedStart
        /\ Len(sent[i]) = 2 => sent[i][2].type = "http.response.body"
        /\ pc[i] = "await_send_start" => Len(sent[i]) = 1
        /\ process_manager[i] \in {"gunicorn", "uvicorn"} =>
              /\ BodySent(i)
              /\ Len(sent[i]) = 2

C1_Witness ==
    \E i \in Invocations :
        /\ pc[i] = "completed"
        /\ self_scope[i].type = "http"
        /\ sent[i] = <<ExpectedStart, response[i]>>
        /\ response[i].type = "http.response.body"

(***************************************************************************)
(* C2: when PROCESS_MANAGER is "uvicorn" at the time the request reads    *)
(* it, the body sent is the UTF-8 encoding of                             *)
(* "Hello World, from Uvicorn and Python {major}.{minor}.{micro}!" and    *)
(* the status is 200.                                                      *)
(***************************************************************************)
C2_UvicornBody ==
    [][\A i \in Invocations :
          (ReadsSetting(i) /\ SettingIs("uvicorn")) =>
              sent'[i] = <<ExpectedStart,
                           [type |-> "http.response.body",
                            body |-> ExpectedUvicornBody]>>]_vars

C2_Witness ==
    \E i \in Invocations :
        /\ pc[i] = "completed"
        /\ process_manager[i] = "uvicorn"
        /\ response[i].body = ExpectedUvicornBody
        /\ sys_version_info.minor = 12

(***************************************************************************)
(* C3: when PROCESS_MANAGER is "gunicorn" or is not set, the body sent is *)
(* the UTF-8 encoding of "Hello World, from Uvicorn, Gunicorn, and Python *)
(* {major}.{minor}.{micro}!", trailing comma included, and the status is  *)
(* 200.                                                                    *)
(***************************************************************************)
C3_GunicornBody ==
    [][\A i \in Invocations :
          (ReadsSetting(i) /\ (SettingUnset \/ SettingIs("gunicorn"))) =>
              sent'[i] = <<ExpectedStart,
                           [type |-> "http.response.body",
                            body |-> ExpectedGunicornBody]>>]_vars

C3_Witness ==
    \E i \in Invocations :
        /\ pc[i] = "completed"
        /\ SettingUnset
        /\ process_manager[i] = "gunicorn"
        /\ response[i].body = ExpectedGunicornBody

(***************************************************************************)
(* C4: for every PROCESS_MANAGER value other than "gunicorn" and          *)
(* "uvicorn" (exact, case-sensitive match), the request ends in           *)
(* NameError: no body message is ever sent and the invocation returns no  *)
(* response.                                                               *)
(***************************************************************************)
C4_InvalidSettingRaises ==
    /\ [][\A i \in Invocations :
             (ReadsSetting(i) /\ ~SettingUnset
                 /\ ~SettingIs("gunicorn") /\ ~SettingIs("uvicorn")) =>
                 /\ pc'[i] = "configuration_error"
                 /\ raised'[i] = "NameError"
                 /\ sent'[i] = sent[i]]_vars
    /\ [](\A i \in Invocations :
             pc[i] = "configuration_error" =>
                 /\ raised[i] = "NameError"
                 /\ response[i] = NoResponse
                 /\ \A k \in 1..Len(sent[i]) :
                        sent[i][k].type # "http.response.body")
    /\ [][\A i \in Invocations :
             pc[i] = "configuration_error" =>
                 /\ pc'[i] = "configuration_error"
                 /\ sent'[i] = sent[i]
                 /\ response'[i] = response[i]]_vars

C4_Witness ==
    /\ \E i \in Invocations :
           pc[i] = "configuration_error" /\ process_manager[i] = "Uvicorn"
    /\ \E i \in Invocations :
           pc[i] = "configuration_error" /\ process_manager[i] = ""

(***************************************************************************)
(* C5: when PROCESS_MANAGER is neither "gunicorn" nor "uvicorn", the      *)
(* error is raised before any output is sent: at the moment of the error  *)
(* the sequence of messages passed to send is empty.                       *)
(***************************************************************************)
C5_ErrorBeforeAnyOutput ==
    \A i \in Invocations :
        pc[i] = "configuration_error" => sent[i] = <<>>

(***************************************************************************)
(* C6: a scope whose type is not "http" fails the assertion in            *)
(* App.__init__, before __call__ can run: no message is ever passed to    *)
(* send for that scope, whatever PROCESS_MANAGER is.                       *)
(***************************************************************************)
C6_NonHttpScopeRejected ==
    \A i \in Invocations :
        (scope[i] # NoScope /\ scope[i].type # "http") =>
            /\ pc[i] = "assertion_error"
            /\ raised[i] = "AssertionError"
            /\ self_scope[i] = NoScope
            /\ receive[i] = NoReceive
            /\ sent[i] = <<>>
            /\ response[i] = NoResponse

C6_Witness ==
    /\ \E i \in Invocations :
           scope[i].type = "websocket" /\ pc[i] = "assertion_error"
    /\ \E i \in Invocations :
           scope[i].type = "lifespan" /\ pc[i] = "assertion_error"
    /\ SettingIs("uvicorn")

\* What invocation i has done for its request.
Outcome(i) ==
    IF pc[i] = "configuration_error" THEN "configuration error"
    ELSE IF BodySent(i) /\ sent[i][2].body = ExpectedUvicornBody
         THEN "uvicorn body"
    ELSE IF BodySent(i) /\ sent[i][2].body = ExpectedGunicornBody
         THEN "gunicorn body"
    ELSE "none"

\* What a request that reads `setting` is documented to do.
OutcomeFor(setting) ==
    IF setting = "uvicorn" THEN "uvicorn body"
    ELSE IF setting = "gunicorn" THEN "gunicorn body"
    ELSE "configuration error"

(***************************************************************************)
(* C7: the setting is read fresh on every request: the outcome of a       *)
(* request (Uvicorn body, Uvicorn-Gunicorn body, configuration error) is  *)
(* decided by the value PROCESS_MANAGER holds when that request reads it, *)
(* never by a value an earlier request read.                               *)
(***************************************************************************)
C7_SettingReadFresh ==
    [][\A i \in Invocations :
          ReadsSetting(i) =>
              LET current == IF SettingUnset THEN "gunicorn"
                             ELSE environ["PROCESS_MANAGER"]
              IN /\ process_manager'[i] = current
                 /\ Outcome(i)' = OutcomeFor(current)]_vars

C7_Witness ==
    \E i, j \in Invocations :
        /\ Outcome(i) = "configuration error"
        /\ Outcome(j) = "gunicorn body"
        /\ SettingIs("uvicorn")

(***************************************************************************)
(* C8: the responder does not route by path or method: two http           *)
(* invocations that read the same valid setting send identical start and  *)
(* body messages, whatever their scopes' other fields and whatever their  *)
(* receive arguments.                                                      *)
(***************************************************************************)
C8_NoRouting ==
    \A i, j \in Invocations :
        /\ (Len(sent[i]) >= 1 /\ Len(sent[j]) >= 1) => sent[i][1] = sent[j][1]
        /\ (BodySent(i) /\ BodySent(j)
               /\ process_manager[i] = process_manager[j]) =>
               sent[i] = sent[j]

C8_Witness ==
    \E i, j \in Invocations :
        /\ pc[i] = "completed" /\ pc[j] = "completed"
        /\ self_scope[i].path # self_scope[j].path
        /\ self_scope[i].method # self_scope[j].method
        /\ self_scope[i].query_string # self_scope[j].query_string
        /\ receive[i] # receive[j]
        /\ process_manager[i] = process_manager[j]
        /\ sent[i] = sent[j]

\* Everything that belongs to invocation i.
InvocationState(i) ==
    <<scope[i], self_scope[i], receive[i], pc[i], sent[i],
      process_manager[i], response[i], raised[i]>>

\* The body an invocation that reads `setting` delivers when run alone.
AloneBody(setting) ==
    [type |-> "http.response.body",
     body |-> IF setting = "uvicorn" THEN ExpectedUvicornBody
              ELSE ExpectedGunicornBody]

(***************************************************************************)
(* C9: invocations are independent under concurrency: however they        *)
(* interleave at their send suspension points, a step of one invocation   *)
(* changes neither another invocation's state nor the environment, and    *)
(* every invocation delivers to its own send exactly the start message    *)
(* followed by the body message it would deliver if run alone.            *)
(***************************************************************************)
C9_Independent ==
    /\ [][\A i \in Invocations :
             InvocationState(i)' # InvocationState(i) =>
                 /\ environ' = environ
                 /\ sys_version_info' = sys_version_info
                 /\ \A j \in Invocations \ {i} :
                        InvocationState(j)' = InvocationState(j)]_vars
    /\ [](\A i \in Invocations :
             pc[i] = "completed" =>
                 sent[i] = <<ExpectedStart, AloneBody(process_manager[i])>>)

C9_Witness ==
    \E i, j \in Invocations :
        /\ pc[i] = "await_send_body" /\ Len(sent[i]) = 2
        /\ pc[j] = "await_send_start" /\ Len(sent[j]) = 1
        /\ \E v \in {"gunicorn", "uvicorn"} :
               SettingIs(v) /\ process_manager[i] = v

\* The terminal states of an invocation on an http scope.
Terminal == {"completed", "configuration_error"}

(***************************************************************************)
(* C10: an invocation on an http scope goes from awaiting request to      *)
(* exactly one of completed and configuration error: once it has been     *)
(* called, and provided every send returns, it eventually reaches a       *)
(* terminal state (completed for a recognised or unset setting,           *)
(* configuration error otherwise), never both, never leaves it, and       *)
(* whatever state the other invocations ended in.                          *)
(***************************************************************************)
C10_ReachesOneTerminalState ==
    /\ \A i \in Invocations :
           (pc[i] = "await_send_start") ~> (pc[i] \in Terminal)
    /\ [][\A i \in Invocations :
             pc[i] \in Terminal => pc'[i] = pc[i]]_vars
    /\ [](\A i \in Invocations :
             /\ pc[i] = "completed" =>
                    /\ process_manager[i] \in {"gunicorn", "uvicorn"}
                    /\ response[i] # NoResponse
                    /\ raised[i] = NoException
             /\ pc[i] = "configuration_error" =>
                    /\ process_manager[i] \notin {"gunicorn", "uvicorn", Unbound}
                    /\ response[i] = NoResponse
                    /\ raised[i] = "NameError")

C10_Witness ==
    \E i, j \in Invocations :
        /\ pc[i] = "configuration_error"
        /\ pc[j] = "completed"
        /\ self_scope[j].type = "http"

====
